---- MODULE Spec2Model ----
(***************************************************************************)
(* Chat hand-off orchestration of the Heritagebox widget:                  *)
(*   - the message relay buffer and its poll endpoint (api/messages-poll), *)
(*   - the Slack webhook intake (api/slack-webhook.ts),                    *)
(*   - the widget client loop (src/components/ChatWidget/ChatWidget.tsx).  *)
(*   - the transcript store behind api/chat-session.                       *)
(* RelaySpec drives the relay buffer with stores and polls, WebhookSpec    *)
(* and IntakeSpec drive the webhook with arbitrary headers and payloads,   *)
(* Spec drives the widget against the relay buffer and the transcript.     *)
(***************************************************************************)
EXTENDS Integers, Sequences, FiniteSets, TLC

VARIABLES
  \* ---- server process: api/messages-poll module state
  messageStore,       \* Map<threadId, StoredMessage[]>
  messageIdCounter,   \* let messageIdCounter = 0
  now,                \* Date.now() of the server, in ms
  restarts,           \* how many times the server process was restarted
  \* ---- observations of the server handlers (last response sent)
  lastPoll,           \* the poll request just answered and its response
  prevPoll,           \* the poll answered before it, no store in between
  lastWebhook,        \* the webhook request just answered and its response
  arrivals,           \* per thread, the entries in storeMessageForPolling call order
  \* ---- widget: React state of ChatWidget
  isOpen, session, isLoading, lastMessageId,
  \* ---- widget: async functions in flight
  send,               \* the sendMessage call in flight (isLoading admits one)
  handoffs,           \* the switchToHuman calls, by invocation number
  handoffCount,       \* switchToHuman invocations so far
  polls,              \* the interval callbacks in flight
  \* ---- widget: what it has sent out
  sessionCalls,       \* requests issued to /api/chat-session (a set)
  slackCalls,         \* requests issued to /api/chat-slack
  aiCalls,            \* requests issued to /api/chat-ai
  threadsCreated,     \* threads opened in the agent channel
  \* ---- transcript store: the session's record in the transcripts table
  record,             \* its fields, once created
  creating,           \* the create call of initializeSession
  \* ---- api/chat-session: addMessage requests being handled
  appends,            \* per request, where updateChatSession stands
  applied,            \* the requests answered with success, in that order
  \* ---- widget: React state of MessageInput
  input               \* the text field and how often handleSend has run

relayVars == <<messageStore, messageIdCounter, now, restarts>>
obsVars == <<lastPoll, prevPoll, lastWebhook, arrivals>>
widgetVars == <<isOpen, session, isLoading, lastMessageId, send, handoffs,
                handoffCount, polls, sessionCalls, slackCalls,
                aiCalls, threadsCreated>>
storeVars == <<appends, applied>>
inputVars == <<input>>
sideVars == <<storeVars, inputVars>>
sessionVars == <<record, creating, sideVars>>
vars == <<relayVars, obsVars, widgetVars, sessionVars>>

(***************************************************************************)
(* Bounds of the model                                                     *)
(***************************************************************************)
MaxStore == 2        \* storeMessageForPolling calls per process lifetime
MaxRestarts == 1     \* server process restarts
MaxReplies == 1      \* agent replies delivered while the widget runs
MaxSends == 1        \* sendMessage invocations
MaxHandoffs == 2     \* switchToHuman invocations
MaxPolls == 2        \* poll callbacks in flight at once
MaxPresses == 2                     \* runs of MessageInput.handleSend

(***************************************************************************)
(* Values                                                                  *)
(***************************************************************************)
Threads == {"T1", "T2"}
Texts == {"A", "B"}
T0 == 1000 * 1000                   \* Date.now() at start, ms
ReplayWindow == 300                 \* seconds
VipSalesChannel == "C_VIP"          \* process.env.SLACK_VIP_SALES_CHANNEL
SigningSecret == "secret"           \* process.env.SLACK_SIGNING_SECRET
Clock == T0 .. (T0 + MaxRestarts)

RECURSIVE SeqToSet(_)
SeqToSet(s) == IF s = <<>> THEN {} ELSE {Head(s)} \cup SeqToSet(Tail(s))

IsPrefix(s, t) == Len(s) <= Len(t) /\ SubSeq(t, 1, Len(s)) = s
IsSuffix(s, t) == Len(s) <= Len(t) /\ SubSeq(t, Len(t) - Len(s) + 1, Len(t)) = s

\* A query-string or header value: absent, the empty string, repeated (an
\* array in req.query) or a string.
Absent == [kind |-> "absent", v |-> <<>>]
Empty == [kind |-> "empty", v |-> <<>>]
Str(x) == [kind |-> "str", v |-> <<x>>]
Arr(x) == [kind |-> "array", v |-> <<x>>]
IsString(q) == q.kind \in {"empty", "str"}      \* typeof q === 'string'
Truthy(q) == q.kind \in {"str", "array"}        \* !!q
Val(q) == q.v[1]

(***************************************************************************)
(* api/messages-poll: the relay buffer                                     *)
(***************************************************************************)
EmptyStore == [t \in {} |-> <<>>]                      \* new Map()
Get(store, t) == IF t \in DOMAIN store THEN store[t] ELSE <<>>   \* store.get(t) || []
Set(store, t, v) == [x \in DOMAIN store \cup {t} |-> IF x = t THEN v ELSE store[x]]

\* an id made of the clock alone
MessageIdOfClock(counter, nowMs) == <<"msg", 0, nowMs>>

\* `msg_${++messageIdCounter}_${Date.now()}`
MessageId(counter, nowMs) == <<"msg", counter, nowMs>>

\* s with e put before the first entry whose timestamp is later than e's
RECURSIVE InsertByTimestamp(_, _)
InsertByTimestamp(s, e) ==
  IF s = <<>> THEN <<e>>
  ELSE IF Head(s).timestamp > e.timestamp THEN <<e>> \o s
  ELSE <<Head(s)>> \o InsertByTimestamp(Tail(s), e)

\* storeMessageForPolling keeping each thread ordered by timestamp
storeMessageSorted(store, counter, nowMs, messageData) ==
  LET message == [id |-> <<"msg", counter + 1, nowMs>>,
                  threadId |-> messageData.threadId,
                  content |-> messageData.content,
                  timestamp |-> messageData.timestamp,
                  isFromAgent |-> messageData.isFromAgent,
                  userId |-> messageData.userId]
  IN [store |-> Set(store, messageData.threadId,
                     InsertByTimestamp(Get(store, messageData.threadId), message)),
      counter |-> counter + 1]

\* messageData: [threadId, content, timestamp, isFromAgent, userId]
storeMessageForPolling(store, counter, nowMs, messageData) ==
  LET messageId == MessageId(counter + 1, nowMs)
      message == [id |-> messageId,
                  threadId |-> messageData.threadId,
                  content |-> messageData.content,
                  timestamp |-> messageData.timestamp,
                  isFromAgent |-> messageData.isFromAgent,
                  userId |-> messageData.userId]
      threadMessages == Get(store, messageData.threadId)
  IN [store |-> Set(store, messageData.threadId, Append(threadMessages, message)),
      counter |-> counter + 1]

\* Array.prototype.findIndex, 1-based; 0 stands for -1
findIndex(threadMessages, id) ==
  IF \E i \in 1..Len(threadMessages) : threadMessages[i].id = id
  THEN CHOOSE i \in 1..Len(threadMessages) :
         /\ threadMessages[i].id = id
         /\ \A j \in 1..(i - 1) : threadMessages[j].id # id
  ELSE 0

\* Array.prototype.slice(from), from 0-based
slice(s, from) == SubSeq(s, from + 1, Len(s))

\* pollGet slicing from the cursor's own index
pollGetFromCursor(store, threadId, lastMsgId) ==
  IF ~(Truthy(threadId) /\ IsString(threadId))
  THEN [status |-> 400, messages |-> <<>>, store |-> store]
  ELSE LET threadMessages == Get(store, Val(threadId))
           lastIndex == findIndex(threadMessages, Val(lastMsgId))
       IN [status |-> 200,
           messages |-> IF Truthy(lastMsgId) /\ IsString(lastMsgId) /\ lastIndex # 0
                        THEN slice(threadMessages, lastIndex - 1)
                        ELSE threadMessages,
           store |-> store]

\* pollGet answering an unknown cursor with nothing
pollGetUnknownEmpty(store, threadId, lastMsgId) ==
  IF ~(Truthy(threadId) /\ IsString(threadId))
  THEN [status |-> 400, messages |-> <<>>, store |-> store]
  ELSE LET threadMessages == Get(store, Val(threadId))
       IN [status |-> 200,
           messages |-> IF Truthy(lastMsgId) /\ IsString(lastMsgId)
                        THEN slice(threadMessages,
                                   IF findIndex(threadMessages, Val(lastMsgId)) = 0
                                   THEN Len(threadMessages)
                                   ELSE findIndex(threadMessages, Val(lastMsgId)))
                        ELSE threadMessages,
           store |-> store]

\* pollGet handing each entry out once: what it returns leaves the buffer
pollGetDraining(store, threadId, lastMsgId) ==
  IF ~(Truthy(threadId) /\ IsString(threadId))
  THEN [status |-> 400, messages |-> <<>>, store |-> store]
  ELSE LET threadMessages == Get(store, Val(threadId))
           lastIndex == findIndex(threadMessages, Val(lastMsgId))
           cut == IF Truthy(lastMsgId) /\ IsString(lastMsgId) /\ lastIndex # 0
                  THEN lastIndex ELSE 0
       IN [status |-> 200,
           messages |-> slice(threadMessages, cut),
           store |-> Set(store, Val(threadId), SubSeq(threadMessages, 1, cut))]

\* GET /api/messages-poll?threadId=..&lastMessageId=..
\* (store: the buffer after the request)
pollGet(store, threadId, lastMsgId) ==
  IF ~(Truthy(threadId) /\ IsString(threadId))
  THEN [status |-> 400, messages |-> <<>>, store |-> store]
  ELSE LET threadMessages == Get(store, Val(threadId))
           lastIndex == findIndex(threadMessages, Val(lastMsgId))
           newMessages ==
             IF Truthy(lastMsgId) /\ IsString(lastMsgId) /\ lastIndex # 0
             THEN slice(threadMessages, lastIndex)
             ELSE threadMessages
       IN [status |-> 200, messages |-> newMessages, store |-> store]

\* POST /api/messages-poll {threadId, content, sessionId, isFromAgent = false}
pollPost(store, counter, nowMs, threadId, content, isFromAgent) ==
  IF ~Truthy(threadId) \/ ~Truthy(content)
  THEN [status |-> 400, store |-> store, counter |-> counter]
  ELSE LET r == storeMessageForPolling(store, counter, nowMs,
                  [threadId |-> Val(threadId), content |-> Val(content),
                   timestamp |-> nowMs, isFromAgent |-> isFromAgent,
                   userId |-> "none"])
       IN [status |-> 200, store |-> r.store, counter |-> r.counter]

(***************************************************************************)
(* api/slack-webhook.ts: the webhook intake                                *)
(***************************************************************************)
\* A header string that is read by parseInt: its leading digits (-1 when it
\* has none) and whatever follows them.
NumStr(n, tail) == Str([digits |-> n, tail |-> tail])
NaN == [nan |-> TRUE, n |-> 0]
Num(n) == [nan |-> FALSE, n |-> n]
parseInt(s) == IF s.digits < 0 THEN NaN ELSE Num(s.digits)
Abs(n) == IF n < 0 THEN -n ELSE n

\* A raw JSON request body: the value it parses to and the way it is written
\* ("compact" is what JSON.stringify emits; "spaced" is the same value
\* written with other whitespace, escapes or key order).
Raw(payload, form) == [payload |-> payload, form |-> form]
JsonParse(raw) == raw.payload
JsonStringify(value) == Raw(value, "compact")

\* createHmac('sha256', key).update(base).digest('hex'): distinct inputs
\* give distinct digests.
Hmac(key, base) == <<"hmac", key, base>>
BaseString(timestamp, body) == <<"v0", timestamp, body>>
SignatureOf(key, timestamp, body) == <<"v0=", Hmac(key, BaseString(timestamp, body))>>

\* verifySlackSignature rejecting old requests only: currentTime - time > 300
verifySlackSignatureOldOnly(body, signature, timestamp, nowMs) ==
  LET time == parseInt(timestamp)
      currentTime == nowMs \div 1000
      tooOld == ~time.nan /\ currentTime - time.n > ReplayWindow
      mySignature == SignatureOf(SigningSecret, timestamp, body)
  IN IF tooOld THEN FALSE ELSE signature = mySignature

verifySlackSignature(body, signature, timestamp, nowMs) ==
  LET time == parseInt(timestamp)
      currentTime == nowMs \div 1000
      tooFar == ~time.nan /\ Abs(currentTime - time.n) > ReplayWindow
      mySignature == SignatureOf(SigningSecret, timestamp, body)
  IN IF tooFar THEN FALSE ELSE signature = mySignature

\* processSlackMessage without the check of event.channel
processSlackMessageAnyChannel(store, counter, nowMs, event) ==
  LET unchanged == [store |-> store, counter |-> counter]
  IN IF event.bot_id \/ event.subtype \/ ~Truthy(event.text) \/ ~Truthy(event.user)
     THEN unchanged
     ELSE IF Truthy(event.thread_ts)
     THEN storeMessageForPolling(store, counter, nowMs,
            [threadId |-> Val(event.thread_ts),
             content |-> Val(event.text),
             timestamp |-> IF Truthy(event.ts) THEN Val(event.ts) ELSE nowMs,
             isFromAgent |-> TRUE,
             userId |-> Val(event.user)])
     ELSE unchanged

\* processSlackMessage: the store and counter after the event
processSlackMessage(store, counter, nowMs, event) ==
  LET unchanged == [store |-> store, counter |-> counter]
  IN IF event.bot_id \/ event.subtype \/ ~Truthy(event.text) \/ ~Truthy(event.user)
     THEN unchanged
     ELSE IF event.channel # VipSalesChannel
     THEN unchanged
     ELSE IF Truthy(event.thread_ts)
     THEN storeMessageForPolling(store, counter, nowMs,
            [threadId |-> Val(event.thread_ts),
             content |-> Val(event.text),
             timestamp |-> IF Truthy(event.ts) THEN Val(event.ts) ELSE nowMs,
             isFromAgent |-> TRUE,
             userId |-> Val(event.user)])
     ELSE unchanged

\* req: [signature, timestamp, raw]; req.body is the parsed raw body
webhookHandler(store, counter, nowMs, req) ==
  LET body == JsonParse(req.raw)
      rawBody == JsonStringify(body)
      rejected == [status |-> 401, store |-> store, counter |-> counter]
  IN IF ~Truthy(req.signature) \/ ~Truthy(req.timestamp)
     THEN rejected
     ELSE IF ~verifySlackSignature(rawBody, Val(req.signature), Val(req.timestamp), nowMs)
     THEN rejected
     ELSE IF body.type = "url_verification"
     THEN [status |-> 200, store |-> store, counter |-> counter]
     ELSE IF body.type = "event_callback" /\ body.hasEvent
     THEN LET r == processSlackMessage(store, counter, nowMs, body.event)
          IN [status |-> 200, store |-> r.store, counter |-> r.counter]
     ELSE [status |-> 200, store |-> store, counter |-> counter]

(***************************************************************************)
(* Requests the server handlers are driven with                            *)
(***************************************************************************)
Event(bot, sub, text, user, channel, thread, ts) ==
  [bot_id |-> bot, subtype |-> sub, text |-> text, user |-> user,
   channel |-> channel, thread_ts |-> thread, ts |-> ts]

\* threaded replies of a human user in the agent channel
ReplyEvents ==
  { Event(FALSE, FALSE, Str(t), Str("U1"), VipSalesChannel, Str(th), Str(10)) :
      t \in Texts, th \in Threads }
  \cup { Event(FALSE, FALSE, Str("A"), Str("U1"), VipSalesChannel, Str("T1"), Absent) }

\* every combination of the fields processSlackMessage filters on
FilterEvents ==
  { Event(b[1], b[2], text, user, ch, th, Str(10)) :
      b \in BOOLEAN \X BOOLEAN,
      text \in {Absent, Empty, Str("A")},
      user \in {Absent, Str("U1")},
      ch \in {VipSalesChannel, "C_OTHER"},
      th \in {Absent, Str("T1")} }

NoEvent == Event(FALSE, FALSE, Absent, Absent, "", Absent, Absent)
AReply == Event(FALSE, FALSE, Str("A"), Str("U1"), VipSalesChannel, Str("T1"), Str(10))

Payloads ==
  { [type |-> "event_callback", hasEvent |-> TRUE, event |-> e] :
      e \in ReplyEvents \cup FilterEvents }
  \cup { [type |-> ty, hasEvent |-> FALSE, event |-> NoEvent] :
      ty \in {"url_verification", "event_callback", "other"} }
  \cup { [type |-> "other", hasEvent |-> TRUE, event |-> AReply] }

TimestampHeaders(cur) ==
  {Absent, Empty}
  \cup { NumStr(cur + d, "") : d \in {0 - ReplayWindow - 1, 0 - ReplayWindow, 0,
                                      ReplayWindow, ReplayWindow + 1} }
  \cup { NumStr(cur, "x"), NumStr(-1, "x") }

\* the signatures a sender may attach to (timestamp, raw): none, junk, the
\* HMAC of what it sends, the HMAC of the compact form of what it sends, an
\* HMAC under another key, an HMAC made for another timestamp
Signatures(timestamp, raw) ==
  LET t == IF Truthy(timestamp) THEN Val(timestamp) ELSE [digits |-> -1, tail |-> ""]
  IN {Absent, Empty, Str(<<"junk">>),
      Str(SignatureOf(SigningSecret, t, raw)),
      Str(SignatureOf(SigningSecret, t, JsonStringify(JsonParse(raw)))),
      Str(SignatureOf("other-key", t, raw)),
      Str(SignatureOf(SigningSecret, [digits |-> 0, tail |-> ""], raw))}

WebhookRequest(signature, timestamp, raw) ==
  [signature |-> signature, timestamp |-> timestamp, raw |-> raw]

SweepBodies ==
  { Raw(p, f) : f \in {"compact", "spaced"},
      p \in { [type |-> "event_callback", hasEvent |-> TRUE, event |-> AReply],
              [type |-> "url_verification", hasEvent |-> FALSE, event |-> NoEvent] } }

\* the clock stays within the second it starts in
CurrentTime == T0 \div 1000

\* every header combination on a few bodies
WebhookRequests ==
  UNION { { WebhookRequest(sg, h[1], h[2]) : sg \in Signatures(h[1], h[2]) } :
            h \in TimestampHeaders(CurrentTime) \X SweepBodies }

\* every payload, written compactly and signed over its timestamp and body,
\* and one payload with a signature that is not an HMAC
IntakeRequests ==
  { WebhookRequest(
      Str(SignatureOf(SigningSecret, [digits |-> CurrentTime, tail |-> ""], Raw(p, "compact"))),
      NumStr(CurrentTime, ""), Raw(p, "compact")) : p \in Payloads }
  \cup
  { WebhookRequest(Str(<<"junk">>), NumStr(CurrentTime, ""),
      Raw([type |-> "event_callback", hasEvent |-> TRUE, event |-> AReply], "compact")) }

\* the signature header equals the HMAC of the signing secret, the timestamp
\* header and the body as it was sent
SignedOverBody(req) ==
  /\ Truthy(req.signature)
  /\ Truthy(req.timestamp)
  /\ Val(req.signature) = SignatureOf(SigningSecret, Val(req.timestamp), req.raw)

ThreadQueries == {Absent, Empty, Arr("T1")} \cup { Str(t) : t \in Threads }
AllMessageIds == { MessageId(c, t) : c \in 1..MaxStore, t \in Clock }
CursorQueries == {Absent, Empty, Arr(MessageId(1, T0))}
                 \cup { Str(i) : i \in AllMessageIds }

(***************************************************************************)
(* The server process                                                      *)
(***************************************************************************)
NoPoll == [status |-> 0, threadId |-> Absent, lastMessageId |-> Absent, messages |-> <<>>]
NoWebhook == [status |-> 0, signedOverBody |-> FALSE, form |-> "", stored |-> 0,
              numeric |-> FALSE, offset |-> 0, isEvent |-> FALSE, event |-> NoEvent]

\* the timestamp header is a plain number of seconds
IsNumeric(timestamp) ==
  Truthy(timestamp) /\ Val(timestamp).digits >= 0 /\ Val(timestamp).tail = ""

NoArrivals == EmptyStore

\* the call order of storeMessageForPolling: the entries of `after` that
\* `before` does not hold are appended to their thread's arrivals
Arrived(before, after) ==
  [t \in DOMAIN after |->
     LET new == SeqToSet(after[t]) \ SeqToSet(Get(before, t))
     IN IF new = {} THEN Get(arrivals, t)
        ELSE Append(Get(arrivals, t), CHOOSE e \in new : TRUE)]

RelayInit ==
  /\ messageStore = EmptyStore
  /\ messageIdCounter = 0
  /\ now = T0
  /\ restarts = 0
  /\ lastPoll = NoPoll
  /\ prevPoll = NoPoll
  /\ lastWebhook = NoWebhook
  /\ arrivals = NoArrivals

\* POST /api/messages-poll
RelayPost(threadId, content, isFromAgent) ==
  LET r == pollPost(messageStore, messageIdCounter, now, threadId, content, isFromAgent)
  IN /\ r.counter <= MaxStore
     /\ messageStore' = r.store
     /\ messageIdCounter' = r.counter
     /\ arrivals' = Arrived(messageStore, r.store)
     /\ lastPoll' = NoPoll
     /\ prevPoll' = NoPoll
     /\ lastWebhook' = NoWebhook
     /\ UNCHANGED <<now, restarts, widgetVars, sessionVars>>

\* GET /api/messages-poll; prevPoll keeps the poll answered right before
\* this one when it asked the same
RelayPoll(threadId, lastMsgId) ==
  LET r == pollGet(messageStore, threadId, lastMsgId)
  IN /\ messageStore' = r.store
     /\ prevPoll' = IF /\ lastPoll.status # 0
                       /\ lastPoll.threadId = threadId
                       /\ lastPoll.lastMessageId = lastMsgId
                    THEN lastPoll ELSE NoPoll
     /\ lastPoll' = [status |-> r.status, threadId |-> threadId,
                     lastMessageId |-> lastMsgId, messages |-> r.messages]
     /\ lastWebhook' = NoWebhook
     /\ UNCHANGED <<messageIdCounter, now, restarts, arrivals, widgetVars, sessionVars>>

\* POST /api/slack-webhook
SlackWebhook(req) ==
  LET r == webhookHandler(messageStore, messageIdCounter, now, req)
  IN /\ r.counter <= MaxStore
     /\ messageStore' = r.store
     /\ messageIdCounter' = r.counter
     /\ arrivals' = Arrived(messageStore, r.store)
     /\ lastWebhook' = [status |-> r.status, signedOverBody |-> SignedOverBody(req),
                        form |-> req.raw.form,
                        stored |-> r.counter - messageIdCounter,
                        numeric |-> IsNumeric(req.timestamp),
                        offset |-> IF IsNumeric(req.timestamp)
                                   THEN Val(req.timestamp).digits - (now \div 1000)
                                   ELSE 0,
                        isEvent |-> (req.raw.payload.type = "event_callback"
                                     /\ req.raw.payload.hasEvent),
                        event |-> req.raw.payload.event]
     /\ lastPoll' = NoPoll
     /\ prevPoll' = NoPoll
     /\ UNCHANGED <<now, restarts, widgetVars, sessionVars>>

\* the serverless process is recycled: module state starts over
Restart ==
  /\ restarts < MaxRestarts
  /\ restarts' = restarts + 1
  /\ now' = now + 1
  /\ messageStore' = EmptyStore
  /\ messageIdCounter' = 0
  /\ arrivals' = NoArrivals
  /\ lastPoll' = NoPoll
  /\ prevPoll' = NoPoll
  /\ lastWebhook' = NoWebhook
  /\ UNCHANGED <<widgetVars, sessionVars>>

(***************************************************************************)
(* api/chat-session: the transcript store                                  *)
(***************************************************************************)
NoRecord == [exists |-> FALSE, Transcript |-> <<>>, SlackThreadID |-> Absent]

senderLabel(sender) ==
  CASE sender = "user" -> "Customer"
    [] sender = "bot" -> "AI Assistant"
    [] OTHER -> "Human Agent"

\* `[${timestamp}] ${senderLabel}: ${message.content}`; a message's timestamp
\* is made with its id, once per message
formatTranscriptEntry(message) ==
  [timestamp |-> message.id, senderLabel |-> senderLabel(message.sender),
   content |-> message.content]

\* how a call to /api/chat-session ends: the table operations succeed (200),
\* a table operation fails (the handler answers 500), or fetch rejects
SessionOutcomes == {"ok", "error", "fail"}

\* a create that leaves the initial message out of the transcript
createChatSessionBlank(rec, initialMessage, outcome) ==
  IF outcome = "ok"
  THEN [exists |-> TRUE, Transcript |-> <<>>, SlackThreadID |-> Absent]
  ELSE rec

\* action 'create': the record after the call
createChatSession(rec, initialMessage, outcome) ==
  IF outcome = "ok"
  THEN [exists |-> TRUE, Transcript |-> <<formatTranscriptEntry(initialMessage)>>,
        SlackThreadID |-> Absent]
  ELSE rec

\* action 'addMessage': the record after the call; without a record the
\* search finds nothing and the handler answers 500
updateChatSession(rec, message, slackThreadId, outcome) ==
  IF outcome = "ok" /\ rec.exists
  THEN [rec EXCEPT !.Transcript = Append(@, formatTranscriptEntry(message)),
                   !.SlackThreadID = IF Truthy(slackThreadId) THEN slackThreadId ELSE @]
  ELSE rec

(***************************************************************************)
(* api/chat-slack: posting to the agent channel                            *)
(***************************************************************************)
\* sendMessageToSlack: the payload given to chat.postMessage
sendMessageToSlack(message, threadId, fromCustomer) ==
  [channel |-> VipSalesChannel,
   text |-> <<IF fromCustomer THEN "Customer" ELSE "Agent", message>>,
   thread_ts |-> threadId]

(***************************************************************************)
(* src/components/ChatWidget: the widget                                   *)
(***************************************************************************)
NoSession == [exists |-> FALSE, mode |-> "ai", messages |-> <<>>,
              slackThreadId |-> Absent, status |-> "none"]

\* uuidv4(): one id per message the widget creates, named by what creates it
Uuid(role, n) == <<role, n, 0>>
Message(id, content, sender) == [id |-> id, content |-> content, sender |-> sender]

\* ---- MessageInput: texts as runs of equal characters ---------------------
\* maxLength={1000} of the text field
MaxLength == 1000

\* n times the character ch
Run(ch, n) == [ch |-> ch, n |-> n]

\* text.length
RECURSIVE Length(_)
Length(text) == IF text = <<>> THEN 0 ELSE Head(text).n + Length(Tail(text))

RECURSIVE TrimStart(_)
TrimStart(text) ==
  IF text = <<>> THEN <<>>
  ELSE IF Head(text).ch = " " THEN TrimStart(Tail(text)) ELSE text

RECURSIVE TrimEnd(_)
TrimEnd(text) ==
  IF text = <<>> THEN <<>>
  ELSE IF text[Len(text)].ch = " " THEN TrimEnd(SubSeq(text, 1, Len(text) - 1)) ELSE text

\* a trim that keeps the white space
trimNothing(text) == text

\* String.prototype.trim
trim(text) == TrimEnd(TrimStart(text))

\* the first k characters of text
RECURSIVE Truncate(_, _)
Truncate(text, k) ==
  IF text = <<>> \/ k = 0 THEN <<>>
  ELSE IF Head(text).n <= k
  THEN <<Head(text)>> \o Truncate(Tail(text), k - Head(text).n)
  ELSE <<Run(Head(text).ch, k)>>

\* e.target.value after typing or pasting `text` into the empty field: the
\* field takes no more than maxLength characters
inputValue(text) == Truncate(text, MaxLength)

\* useState(''); `typed` is what the customer put in, `presses` counts the
\* runs of handleSend
NoInput == [message |-> <<>>, typed |-> <<>>, presses |-> 0]

\* ---- updateChatSession, one table operation at a time -------------------
\* the addMessage requests one session can have at the handler at once
MaxAppends == 3

\* a request not yet received
NoAppend == [pc |-> "idle", existingTranscript |-> <<>>]

\* the message of the c-th addMessage request: the customer path, the
\* agent-reply path, the assistant's answer
AppendMessage(c) ==
  Message(Uuid("append", c), "hello",
          CASE c = 1 -> "user" [] c = 2 -> "human" [] OTHER -> "bot")

\* action 'create' at the handler
StoreCreate(outcome) ==
  /\ ~record.exists
  /\ record' = createChatSession(record, Message(Uuid("welcome", 0), "welcome", "bot"), outcome)
  /\ UNCHANGED <<relayVars, obsVars, widgetVars, creating, sideVars>>

\* updateChatSession up to its first await: search_records and the read of
\* record.fields.Transcript; no record, or a failed search, throws
UpdateSearch(c, outcome) ==
  /\ appends[c].pc = "idle"
  /\ appends' = [appends EXCEPT ![c] =
       IF outcome = "ok" /\ record.exists
       THEN [pc |-> "searched", existingTranscript |-> record.Transcript]
       ELSE [pc |-> "failed", existingTranscript |-> <<>>]]
  /\ UNCHANGED <<relayVars, obsVars, widgetVars, record, creating, applied, inputVars>>

\* updateChatSession from its first await on: update_records writes
\* existingTranscript + '\n' + newTranscriptEntry into the record
UpdateWrite(c, outcome) ==
  /\ appends[c].pc = "searched"
  /\ LET read == [record EXCEPT !.Transcript = appends[c].existingTranscript]
     IN record' = IF outcome = "ok"
                  THEN [record EXCEPT !.Transcript =
                          updateChatSession(read, AppendMessage(c), Absent, outcome).Transcript]
                  ELSE record
  /\ appends' = [appends EXCEPT ![c].pc = IF outcome = "ok" THEN "done" ELSE "failed"]
  /\ applied' = IF outcome = "ok" THEN Append(applied, c) ELSE applied
  /\ UNCHANGED <<relayVars, obsVars, widgetVars, creating, inputVars>>

NoMessage == Message(Uuid("none", 0), "", "none")

IdleSend(n) == [pc |-> "idle", n |-> n, session |-> NoSession, userMessage |-> NoMessage,
                response |-> ""]

\* the thread timestamp Slack returns for the n-th thread it opens
ThreadTs(n) == CASE n = 1 -> "T1" [] n = 2 -> "T2" [] n = 3 -> "T3" [] OTHER -> "T4"

WidgetInit ==
  /\ isOpen = FALSE
  /\ session = NoSession
  /\ isLoading = FALSE
  /\ lastMessageId = Absent
  /\ send = IdleSend(0)
  /\ handoffs = <<>>
  /\ handoffCount = 0
  /\ polls = <<>>
  /\ sessionCalls = {}
  /\ slackCalls = {}
  /\ aiCalls = {}
  /\ record = NoRecord
  /\ creating = "idle"
  /\ threadsCreated = 0
  /\ appends = [c \in 1..MaxAppends |-> NoAppend]
  /\ applied = <<>>
  /\ input = NoInput

\* a request is sent: the sets hold every request issued so far
Issue(calls, call) == calls \cup {call}

\* a header that shows the hand-off button in every mode
HandoffButtonAlways(s) == s.mode \in {"ai", "human"}

\* ChatWindow renders the hand-off button
HandoffButtonShown(s) == s.mode = "ai"

\* the poll effect keeps an interval running
PollingActive(s) == s.exists /\ s.mode = "human" /\ Truthy(s.slackThreadId)

\* fetch('/api/chat-session', {method: 'PUT', body: {action: 'addMessage', ...}})
AddMessageCall(message, slackThreadId) ==
  [action |-> "addMessage", message |-> message.id, slackThreadId |-> slackThreadId]

\* initializeSession, run by the effect on isOpen
initializeSession ==
  LET welcomeMessage == Message(Uuid("welcome", 0), "welcome", "bot")
  IN /\ session' = [exists |-> TRUE, mode |-> "ai", messages |-> <<welcomeMessage>>,
                    slackThreadId |-> Absent, status |-> "active"]
     /\ sessionCalls' = Issue(sessionCalls, [action |-> "create", message |-> welcomeMessage.id, slackThreadId |-> Absent])
     /\ creating' = "sent"

toggleChat ==
  /\ isOpen' = ~isOpen
  /\ IF ~isOpen /\ ~session.exists
     THEN initializeSession
     ELSE UNCHANGED <<session, sessionCalls, creating>>
  /\ input' = IF isOpen THEN [NoInput EXCEPT !.presses = input.presses] ELSE input
  /\ UNCHANGED <<isLoading, lastMessageId, send, handoffs, handoffCount, polls,
                 slackCalls, aiCalls, threadsCreated>>
  /\ UNCHANGED <<relayVars, obsVars, record, storeVars>>

\* the create call settles and a failure resets the session
CreateDoneResetting(outcome) ==
  /\ creating = "sent"
  /\ creating' = "done"
  /\ record' = createChatSession(record, session.messages[1], outcome)
  /\ session' = IF outcome = "ok" THEN session ELSE NoSession
  /\ UNCHANGED <<isOpen, isLoading, lastMessageId, send, handoffs, handoffCount,
                 polls, sessionCalls, slackCalls, aiCalls, threadsCreated>>
  /\ UNCHANGED <<relayVars, obsVars, sideVars>>

\* the create call of initializeSession settles; a failure is only logged
CreateDone(outcome) ==
  /\ creating = "sent"
  /\ creating' = "done"
  /\ record' = createChatSession(record, session.messages[1], outcome)
  /\ UNCHANGED <<relayVars, obsVars, widgetVars, sideVars>>

\* ---- sendMessage ------------------------------------------------------
updatedMessages(sd) == Append(sd.session.messages, sd.userMessage)

\* sendMessage up to its first await: MessageInput and QuickActions call it
\* with a non-empty text while the window is shown
sendMessage(content) ==
  /\ isOpen
  /\ session.exists /\ ~isLoading
  /\ send.pc = "idle" /\ send.n < MaxSends
  /\ LET userMessage == Message(Uuid("user", send.n + 1), content, "user")
     IN /\ isLoading' = TRUE
        /\ session' = [session EXCEPT !.messages = Append(session.messages, userMessage)]
        /\ sessionCalls' = Issue(sessionCalls, AddMessageCall(userMessage, Absent))
        /\ send' = [pc |-> "put1", n |-> send.n + 1, session |-> session,
                    userMessage |-> userMessage, response |-> ""]
  /\ UNCHANGED <<isOpen, lastMessageId, handoffs, handoffCount, polls,
                 slackCalls, aiCalls, threadsCreated>>
  /\ UNCHANGED <<relayVars, obsVars, record, creating, storeVars>>

\* sendMessage called with the MessageInput left as it is
SendStart(content) == sendMessage(content) /\ UNCHANGED inputVars

\* onChange={(e) => setMessage(e.target.value)}; the field is disabled
\* while a message is being sent
InputChange(text) ==
  /\ isOpen /\ session.exists /\ ~isLoading
  /\ input' = [input EXCEPT !.message = inputValue(text), !.typed = text]
  /\ UNCHANGED <<relayVars, obsVars, widgetVars, record, creating, storeVars>>

\* MessageInput.handleSend, by the send button or the Enter key
handleSend ==
  /\ isOpen /\ session.exists
  /\ input.presses < MaxPresses
  /\ LET trimmedMessage == trim(input.message)
     IN IF trimmedMessage = <<>> \/ isLoading
        THEN /\ input' = [input EXCEPT !.presses = @ + 1]
             /\ UNCHANGED <<relayVars, obsVars, widgetVars, record, creating, storeVars>>
        ELSE /\ sendMessage(trimmedMessage)
             /\ input' = [NoInput EXCEPT !.presses = input.presses + 1]

\* a QuickActions button, shown under the welcome message
handleQuickAction(message) ==
  /\ Len(session.messages) = 1 /\ session.mode = "ai"
  /\ sendMessage(message)
  /\ UNCHANGED inputVars

\* what a failed provider call throws or answers
ProviderError == "provider-error"

\* a catch that shows the error it caught
sendErrorContentRaw(error) == error

\* the content of errorMessage in sendMessage's catch: a fixed apology
sendErrorContent(error) == IF error = ProviderError THEN "sorry" ELSE "sorry"

\* catch (error) { ... } finally { setIsLoading(false) }
sendCatch ==
  LET errorMessage == Message(Uuid("sorry", send.n), sendErrorContent(ProviderError), "bot")
  IN /\ session' = [send.session EXCEPT
                      !.messages = Append(updatedMessages(send), errorMessage)]
     /\ isLoading' = FALSE
     /\ send' = IdleSend(send.n)

\* a sendMessage that ends without touching isLoading
sendFinallyStillLoading ==
  /\ isLoading' = isLoading
  /\ send' = IdleSend(send.n)

\* finally { setIsLoading(false) } on the path without an error
sendFinally ==
  /\ isLoading' = FALSE
  /\ send' = IdleSend(send.n)

\* how a call to /api/chat-ai ends: a completion, an error of the completion
\* service caught by the handler, or a rejected fetch / non-2xx answer
AiOutcomes == {"ok", "openai-error", "fail"}

\* the handler of /api/chat-ai: its catch answers 200 with a fallback text
chatAiHandler(outcome) ==
  IF outcome = "ok"
  THEN [status |-> 200, success |-> TRUE, response |-> "response"]
  ELSE [status |-> 200, success |-> TRUE, response |-> "fallback"]

\* the answer of /api/chat-ai as a message
botMessage(sd) == Message(Uuid("bot", sd.n), sd.response, "bot")

\* a widget that sends every message to the AI responder
routeModeAlwaysAi(sd) == IF sd.n >= 0 THEN "ai" ELSE "human"

\* if (session.mode === 'ai') ... else ...: the mode of the session the
\* call captured
routeMode(sd) == sd.session.mode

\* the first PUT settles; the message is routed by the captured mode
SendRoute(outcome) ==
  /\ send.pc = "put1"
  /\ IF outcome = "fail"
     THEN sendCatch /\ UNCHANGED <<aiCalls, slackCalls>>
     ELSE IF routeMode(send) = "ai"
     THEN /\ aiCalls' = Issue(aiCalls, send.userMessage.id)
          /\ send' = [send EXCEPT !.pc = "ai"]
          /\ UNCHANGED <<session, isLoading, slackCalls>>
     ELSE IF ~Truthy(send.session.slackThreadId)
     THEN sendCatch /\ UNCHANGED <<aiCalls, slackCalls>>
     ELSE /\ slackCalls' = Issue(slackCalls, [action |-> "sendMessage", message |-> send.userMessage.id,
                threadId |-> send.session.slackThreadId])
          /\ send' = [send EXCEPT !.pc = "slack"]
          /\ UNCHANGED <<session, isLoading, aiCalls>>
  /\ record' = updateChatSession(record, send.userMessage, Absent, outcome)
  /\ UNCHANGED <<isOpen, lastMessageId, handoffs, handoffCount, polls,
                 sessionCalls, threadsCreated>>
  /\ UNCHANGED <<relayVars, obsVars, creating, sideVars>>

\* /api/chat-ai settles
SendAiDone(outcome) ==
  /\ send.pc = "ai"
  /\ IF outcome = "fail"
     THEN sendCatch /\ UNCHANGED sessionCalls
     ELSE /\ send' = [send EXCEPT !.pc = "put2",
                                  !.response = chatAiHandler(outcome).response]
          /\ session' = [send.session EXCEPT
                           !.messages = Append(updatedMessages(send), botMessage(send'))]
          /\ sessionCalls' = Issue(sessionCalls, AddMessageCall(botMessage(send'), Absent))
          /\ UNCHANGED isLoading
  /\ UNCHANGED <<isOpen, lastMessageId, handoffs, handoffCount, polls,
                 slackCalls, aiCalls, threadsCreated>>
  /\ UNCHANGED <<relayVars, obsVars, sessionVars>>

\* /api/chat-slack sendMessage settles
SendSlackDone(outcome) ==
  /\ send.pc = "slack"
  /\ IF outcome = "fail"
     THEN sendCatch /\ UNCHANGED sessionCalls
     ELSE /\ session' = [send.session EXCEPT !.messages = updatedMessages(send)]
          /\ sessionCalls' = Issue(sessionCalls, AddMessageCall(send.userMessage, send.session.slackThreadId))
          /\ send' = [send EXCEPT !.pc = "put2"]
          /\ UNCHANGED isLoading
  /\ UNCHANGED <<isOpen, lastMessageId, handoffs, handoffCount, polls,
                 slackCalls, aiCalls, threadsCreated>>
  /\ UNCHANGED <<relayVars, obsVars, sessionVars>>

\* the last PUT of either branch settles
SendLastPutDone(outcome) ==
  /\ send.pc = "put2"
  /\ IF outcome = "fail"
     THEN sendCatch
     ELSE sendFinally /\ UNCHANGED session
  /\ record' = IF send.session.mode = "ai"
               THEN updateChatSession(record, botMessage(send), Absent, outcome)
               ELSE updateChatSession(record, send.userMessage,
                                      send.session.slackThreadId, outcome)
  /\ UNCHANGED <<isOpen, lastMessageId, handoffs, handoffCount, polls,
                 sessionCalls, slackCalls, aiCalls, threadsCreated>>
  /\ UNCHANGED <<relayVars, obsVars, creating, sideVars>>

\* ---- switchToHuman ----------------------------------------------------
transitionMessage(k) == Message(Uuid("transition", k), "connecting", "bot")

\* switchToHuman up to its first await; only the hand-off button calls it
HandoffStart ==
  /\ isOpen
  /\ session.exists
  /\ HandoffButtonShown(session)
  /\ handoffCount < MaxHandoffs
  /\ LET k == handoffCount + 1
     IN /\ session' = [session EXCEPT
                         !.messages = Append(session.messages, transitionMessage(k)),
                         !.mode = "human"]
        /\ slackCalls' = Issue(slackCalls, [action |-> "createThread", message |-> transitionMessage(k).id,
              threadId |-> Absent])
        /\ handoffs' = Append(handoffs, [pc |-> "create", threadId |-> Absent])
        /\ handoffCount' = k
  /\ UNCHANGED <<isOpen, isLoading, lastMessageId, send, polls, sessionCalls,
                 aiCalls, threadsCreated>>
  /\ UNCHANGED <<relayVars, obsVars, sessionVars>>

\* the content of errorMessage in switchToHuman's catch
handoffErrorContent(error) == IF error = ProviderError THEN "no-agent" ELSE "no-agent"

\* catch (error) { ... mode: 'ai' }
handoffCatch(k, pc) ==
  LET errorMessage == Message(Uuid("no-agent", k), handoffErrorContent(ProviderError), "bot")
  IN /\ session' = [session EXCEPT
                      !.messages = Append(session.messages, errorMessage),
                      !.mode = "ai"]
     /\ handoffs' = [handoffs EXCEPT ![k].pc = pc]

\* the createThread call settles
HandoffCreateDone(k, outcome) ==
  /\ handoffs[k].pc = "create"
  /\ IF outcome = "fail"
     THEN handoffCatch(k, "failed") /\ UNCHANGED <<sessionCalls, threadsCreated>>
     ELSE LET threadId == Str(ThreadTs(threadsCreated + 1))
          IN /\ threadsCreated' = threadsCreated + 1
             /\ session' = [session EXCEPT !.slackThreadId = threadId, !.mode = "human"]
             /\ sessionCalls' = Issue(sessionCalls, AddMessageCall(transitionMessage(k),
                                 threadId))
             /\ handoffs' = [handoffs EXCEPT ![k] = [pc |-> "put", threadId |-> threadId]]
  /\ UNCHANGED <<isOpen, isLoading, lastMessageId, send, handoffCount, polls,
                 slackCalls, aiCalls>>
  /\ UNCHANGED <<relayVars, obsVars, sessionVars>>

\* the PUT that records the thread id settles
HandoffPutDone(k, outcome) ==
  /\ handoffs[k].pc = "put"
  /\ IF outcome = "fail"
     THEN handoffCatch(k, "put-failed")
     ELSE LET confirmMessage == Message(Uuid("connected", k), "connected", "bot")
          IN /\ session' = [session EXCEPT
                              !.messages = Append(session.messages, confirmMessage)]
             /\ handoffs' = [handoffs EXCEPT ![k].pc = "done"]
  /\ record' = updateChatSession(record, transitionMessage(k), handoffs[k].threadId, outcome)
  /\ UNCHANGED <<isOpen, isLoading, lastMessageId, send, handoffCount, polls,
                 sessionCalls, slackCalls, aiCalls, threadsCreated>>
  /\ UNCHANGED <<relayVars, obsVars, creating, sideVars>>

\* ---- the poll effect --------------------------------------------------
RemoveAt(s, i) == SubSeq(s, 1, i - 1) \o SubSeq(s, i + 1, Len(s))

\* msg => ({id, content, sender: msg.isFromAgent ? 'human' : 'user', ...})
toWidgetMessage(msg) ==
  Message(msg.id, msg.content, IF msg.isFromAgent THEN "human" ELSE "user")

RECURSIVE MapToWidget(_)
MapToWidget(msgs) ==
  IF msgs = <<>> THEN <<>>
  ELSE <<toWidgetMessage(Head(msgs))>> \o MapToWidget(Tail(msgs))

\* the interval fires: the callback of the current render sends its request
PollTick ==
  /\ PollingActive(session)
  /\ Len(polls) < MaxPolls
  /\ polls' = Append(polls, [pc |-> "sent",
                             threadId |-> session.slackThreadId,
                             lastMessageId |-> IF Truthy(lastMessageId)
                                               THEN lastMessageId ELSE Empty,
                             messages |-> <<>>])
  /\ UNCHANGED <<isOpen, session, isLoading, lastMessageId, send, handoffs,
                 handoffCount, sessionCalls, slackCalls, aiCalls, threadsCreated>>
  /\ UNCHANGED <<relayVars, obsVars, sessionVars>>

\* the server answers poll i; on a failed request or an empty list the
\* callback returns without touching the state
PollServe(i, outcome) ==
  /\ polls[i].pc = "sent"
  /\ IF outcome = "fail"
     THEN polls' = RemoveAt(polls, i) /\ UNCHANGED messageStore
     ELSE LET r == pollGet(messageStore, polls[i].threadId, polls[i].lastMessageId)
          IN /\ messageStore' = r.store
             /\ polls' = IF r.status = 200 /\ Len(r.messages) > 0
                         THEN [polls EXCEPT ![i].pc = "answered", ![i].messages = r.messages]
                         ELSE RemoveAt(polls, i)
  /\ UNCHANGED <<messageIdCounter, now, restarts, obsVars, sessionVars>>
  /\ UNCHANGED <<isOpen, session, isLoading, lastMessageId, send, handoffs,
                 handoffCount, sessionCalls, slackCalls, aiCalls, threadsCreated>>

\* the callback of poll i resumes with the response
PollApply(i) ==
  /\ polls[i].pc = "answered"
  /\ polls' = RemoveAt(polls, i)
  /\ IF Len(polls[i].messages) > 0
     THEN /\ session' = IF session.exists
                        THEN [session EXCEPT
                                !.messages = session.messages \o MapToWidget(polls[i].messages)]
                        ELSE session
          /\ lastMessageId' = Str(polls[i].messages[Len(polls[i].messages)].id)
     ELSE UNCHANGED <<session, lastMessageId>>
  /\ UNCHANGED <<isOpen, isLoading, send, handoffs, handoffCount, sessionCalls,
                 slackCalls, aiCalls, threadsCreated>>
  /\ UNCHANGED <<relayVars, obsVars, sessionVars>>

Init == RelayInit /\ WidgetInit

\* an authentic delivery of a threaded agent reply by Slack
SlackDelivery(event, form) ==
  LET raw == Raw([type |-> "event_callback", hasEvent |-> TRUE, event |-> event], form)
      timestamp == NumStr(now \div 1000, "")
  IN WebhookRequest(Str(SignatureOf(SigningSecret, Val(timestamp), raw)), timestamp, raw)

(***************************************************************************)
(* RelaySpec: the relay buffer under stores and polls                      *)
(***************************************************************************)
RelayNext ==
  \/ \E th \in ThreadQueries, c \in {Absent, Str("A")} : RelayPost(th, c, FALSE)
  \/ \E th \in ThreadQueries, c \in CursorQueries : RelayPoll(th, c)
  \/ \E th \in Threads, ts \in {Str(10), Str(20)} :
       SlackWebhook(SlackDelivery(
         Event(FALSE, FALSE, Str("B"), Str("U1"), VipSalesChannel, Str(th), ts), "compact"))
  \/ Restart

RelaySpec == Init /\ [][RelayNext]_vars

(***************************************************************************)
(* WebhookSpec: the webhook intake under arbitrary requests                *)
(***************************************************************************)
WebhookNext ==
  \/ \E req \in WebhookRequests : SlackWebhook(req)
  \/ \E th \in Threads : RelayPoll(Str(th), Absent)

WebhookSpec == Init /\ [][WebhookNext]_vars

(***************************************************************************)
(* IntakeSpec: the webhook intake under arbitrary event payloads           *)
(***************************************************************************)
IntakeNext ==
  \/ \E req \in IntakeRequests : SlackWebhook(req)
  \/ \E th \in Threads : RelayPoll(Str(th), Absent)

IntakeSpec == Init /\ [][IntakeNext]_vars

(***************************************************************************)
(* FairSpec: the widget's calls, where every call made by sendMessage      *)
(* returns or throws; the agent channel and the create call may stay       *)
(* silent                                                                  *)
(***************************************************************************)
CallsNext ==
  \/ toggleChat
  \/ \E content \in {"hello"} : SendStart(content)
  \/ \E o \in SessionOutcomes : CreateDone(o)
  \/ \E o \in SessionOutcomes : SendRoute(o)
  \/ \E o \in AiOutcomes : SendAiDone(o)
  \/ \E o \in {"ok", "fail"} : SendSlackDone(o)
  \/ \E o \in SessionOutcomes : SendLastPutDone(o)
  \/ HandoffStart
  \/ \E k \in 1..Len(handoffs), o \in {"ok", "fail"} : HandoffCreateDone(k, o)
  \/ \E k \in 1..Len(handoffs), o \in SessionOutcomes : HandoffPutDone(k, o)

\* a call awaited by sendMessage settles
SendSettles ==
  \/ \E o \in SessionOutcomes : SendRoute(o)
  \/ \E o \in AiOutcomes : SendAiDone(o)
  \/ \E o \in {"ok", "fail"} : SendSlackDone(o)
  \/ \E o \in SessionOutcomes : SendLastPutDone(o)

FairSpec == Init /\ [][CallsNext]_vars /\ WF_vars(SendSettles)

(***************************************************************************)
(* InputSpec: the customer at the text field and the quick actions         *)
(***************************************************************************)
\* what the customer types or pastes
TypedTexts ==
  { <<>>, <<Run(" ", 3)>>, <<Run(" ", 1), Run("a", 5), Run(" ", 1)>>,
    <<Run("a", MaxLength)>>, <<Run("a", MaxLength + 1)>>,
    <<Run(" ", 1), Run("a", MaxLength)>> }

\* 'Check my order status'
QuickActionTexts == { <<Run("a", 21)>> }

InputNext ==
  \/ toggleChat
  \/ \E o \in SessionOutcomes : CreateDone(o)
  \/ \E text \in TypedTexts : InputChange(text)
  \/ handleSend
  \/ \E message \in QuickActionTexts : handleQuickAction(message)
  \/ \E o \in SessionOutcomes : SendRoute(o)
  \/ \E o \in AiOutcomes : SendAiDone(o)
  \/ \E o \in SessionOutcomes : SendLastPutDone(o)

InputSpec == Init /\ [][InputNext]_vars

(***************************************************************************)
(* TranscriptSpec: addMessage requests of one session at the handler       *)
(***************************************************************************)
TranscriptNext ==
  \/ \E o \in {"ok", "error"} : StoreCreate(o)
  \/ \E c \in 1..MaxAppends, o \in {"ok", "error"} : UpdateSearch(c, o)
  \/ \E c \in 1..MaxAppends, o \in {"ok", "error"} : UpdateWrite(c, o)

TranscriptSpec == Init /\ [][TranscriptNext]_vars

(***************************************************************************)
(* Spec: the widget against the relay buffer                               *)
(***************************************************************************)
Outcomes == {"ok", "fail"}
UserTexts == {"hello"}
AgentTexts == {"A"}

\* an agent answers in a thread the widget opened
AgentReply ==
  \E n \in 1..threadsCreated, t \in AgentTexts :
    /\ messageIdCounter < MaxReplies
    /\ SlackWebhook(SlackDelivery(
         Event(FALSE, FALSE, Str(t), Str("U1"), VipSalesChannel, Str(ThreadTs(n)), Str(10)),
         "compact"))

Next ==
  \/ toggleChat
  \/ \E content \in UserTexts : SendStart(content)
  \/ \E o \in SessionOutcomes : CreateDone(o)
  \/ \E o \in SessionOutcomes : SendRoute(o)
  \/ \E o \in Outcomes : SendAiDone(o)
  \/ \E o \in Outcomes : SendSlackDone(o)
  \/ \E o \in SessionOutcomes : SendLastPutDone(o)
  \/ HandoffStart
  \/ \E k \in 1..Len(handoffs), o \in Outcomes : HandoffCreateDone(k, o)
  \/ \E k \in 1..Len(handoffs), o \in SessionOutcomes : HandoffPutDone(k, o)
  \/ PollTick
  \/ \E i \in 1..Len(polls), o \in Outcomes : PollServe(i, o)
  \/ \E i \in 1..Len(polls) : PollApply(i)
  \/ AgentReply

Spec == Init /\ [][Next]_vars

(***************************************************************************)
(* Properties of the relay buffer (RelaySpec)                              *)
(***************************************************************************)
PolledThread == Get(messageStore, Val(lastPoll.threadId))
PollAnswered == lastPoll.status = 200
CursorIsString == lastPoll.lastMessageId.kind = "str"
CursorKnown ==
  CursorIsString /\ \E i \in 1..Len(PolledThread) :
                       PolledThread[i].id = Val(lastPoll.lastMessageId)

\* C6: a poll whose lastMessageId is the id of an entry stored for the
\* thread returns exactly the entries stored after that entry: not the entry
\* itself, none stored before it, and every one stored after it.
PollReturnsExactlyLater ==
  (PollAnswered /\ CursorIsString) =>
    \A i \in 1..Len(PolledThread) :
      PolledThread[i].id = Val(lastPoll.lastMessageId) =>
        /\ lastPoll.messages = SubSeq(PolledThread, i + 1, Len(PolledThread))
        /\ \A k \in 1..Len(lastPoll.messages) :
             lastPoll.messages[k].id # Val(lastPoll.lastMessageId)

\* a poll from the first entry of a thread that holds more
PollFromKnownCursor ==
  /\ PollAnswered
  /\ CursorKnown
  /\ Len(PolledThread) >= 2
  /\ PolledThread[1].id = Val(lastPoll.lastMessageId)
  /\ Len(lastPoll.messages) = Len(PolledThread) - 1

\* C7: a poll whose lastMessageId is absent, empty or not the id of an entry
\* retained for the thread returns the whole retained sequence of the thread.
PollFullWithoutCursor ==
  (PollAnswered /\ (lastPoll.lastMessageId.kind \in {"absent", "empty"}
                    \/ (CursorIsString /\ ~CursorKnown))) =>
    lastPoll.messages = PolledThread

\* after a restart, a poll with a cursor of the previous process lifetime
PollWithStaleCursor ==
  /\ PollAnswered
  /\ restarts >= 1
  /\ lastPoll.lastMessageId = Str(MessageId(1, T0))
  /\ ~CursorKnown
  /\ Len(lastPoll.messages) >= 1

\* C8: a poll leaves the relay buffer and the id counter as they were, and a
\* poll that repeats the request of the poll right before it returns the
\* same list.
PollIdempotent ==
  /\ [][lastPoll'.status # 0 => UNCHANGED <<messageStore, messageIdCounter>>]_vars
  /\ [](prevPoll.status # 0 => prevPoll.messages = lastPoll.messages)

\* the same non-empty poll answered twice in a row
PollRepeated ==
  /\ prevPoll.status = 200
  /\ lastPoll.threadId = prevPoll.threadId
  /\ lastPoll.lastMessageId = prevPoll.lastMessageId
  /\ Len(prevPoll.messages) >= 1

\* C9: a poll returns the entries of a thread in the order
\* storeMessageForPolling was called for them, whatever their timestamps.
PollInArrivalOrder ==
  PollAnswered =>
    LET arrived == Get(arrivals, Val(lastPoll.threadId))
        m == lastPoll.messages
    IN \A i, j \in 1..Len(m) :
         i < j => \E a, b \in 1..Len(arrived) :
                    a < b /\ arrived[a] = m[i] /\ arrived[b] = m[j]

\* a poll returning an entry with a later timestamp before an earlier one
PollOutOfTimestampOrder ==
  /\ PollAnswered
  /\ Len(lastPoll.messages) >= 2
  /\ lastPoll.messages[1].timestamp > lastPoll.messages[2].timestamp

(***************************************************************************)
(* Properties of the webhook intake (WebhookSpec)                          *)
(***************************************************************************)
\* C10: a webhook request whose signature header is not the HMAC of the
\* signing secret, the timestamp header and the request body is answered 401
\* and stores no relay entry.
UnsignedWebhookRejected ==
  (lastWebhook.status # 0 /\ ~lastWebhook.signedOverBody) =>
    (lastWebhook.status = 401 /\ lastWebhook.stored = 0)

\* C11: a webhook request whose timestamp header is more than 300 seconds
\* before or after the current time (in whole seconds) is answered 401 and
\* stores no relay entry, also when its signature is the HMAC of its
\* timestamp and body.
StaleWebhookRejected ==
  (lastWebhook.status # 0 /\ lastWebhook.numeric
     /\ Abs(lastWebhook.offset) > ReplayWindow) =>
    (lastWebhook.status = 401 /\ lastWebhook.stored = 0)

\* a request stamped 301 seconds ahead, signed over its timestamp and body,
\* was answered 401
FutureSignedWebhookRejected ==
  /\ lastWebhook.status = 401
  /\ lastWebhook.numeric
  /\ lastWebhook.offset > ReplayWindow
  /\ lastWebhook.signedOverBody
  /\ lastWebhook.form = "compact"

(***************************************************************************)
(* Properties of the webhook intake (IntakeSpec)                           *)
(***************************************************************************)
\* the request just answered carried an event and the HMAC of its timestamp
\* and body
AuthenticEvent ==
  lastWebhook.status # 0 /\ lastWebhook.signedOverBody /\ lastWebhook.isEvent

\* C12: an authenticated event stores no relay entry when it has no
\* thread_ts, carries a bot_id, comes from a channel other than the agent
\* channel, or has no text.
FilteredEventNotStored ==
  (AuthenticEvent /\ (\/ ~Truthy(lastWebhook.event.thread_ts)
                      \/ lastWebhook.event.bot_id
                      \/ lastWebhook.event.channel # VipSalesChannel
                      \/ ~Truthy(lastWebhook.event.text))) =>
    lastWebhook.stored = 0

\* a threaded reply of a human user with text, in another channel, was
\* answered 200 and not stored
OtherChannelReplyDropped ==
  /\ AuthenticEvent
  /\ lastWebhook.status = 200
  /\ lastWebhook.stored = 0
  /\ lastWebhook.event.channel # VipSalesChannel
  /\ Truthy(lastWebhook.event.thread_ts)
  /\ Truthy(lastWebhook.event.text)
  /\ Truthy(lastWebhook.event.user)
  /\ ~lastWebhook.event.bot_id
  /\ ~lastWebhook.event.subtype

\* a threaded reply with text, written by a user (not a bot) in the agent
\* channel
ThreadedHumanReply(event) ==
  /\ Truthy(event.thread_ts)
  /\ Truthy(event.text)
  /\ Truthy(event.user)
  /\ ~event.bot_id
  /\ event.channel = VipSalesChannel

\* C13: an authenticated threaded reply of a human user in the agent
\* channel, with text T and thread reference X, stores exactly one relay
\* entry, the last of thread X, with content T and isFromAgent = TRUE, and
\* the poll of thread X without a cursor that follows returns that entry.
HumanReplyRelayed ==
  /\ []((AuthenticEvent /\ ThreadedHumanReply(lastWebhook.event)) =>
          LET X == Get(messageStore, Val(lastWebhook.event.thread_ts))
          IN /\ lastWebhook.stored = 1
             /\ Len(X) >= 1
             /\ X[Len(X)].content = Val(lastWebhook.event.text)
             /\ X[Len(X)].isFromAgent)
  /\ [][(/\ AuthenticEvent /\ ThreadedHumanReply(lastWebhook.event)
         /\ lastPoll'.status # 0
         /\ lastPoll'.threadId = lastWebhook.event.thread_ts
         /\ lastPoll'.lastMessageId = Absent) =>
          LET m == lastPoll'.messages
          IN /\ lastPoll'.status = 200
             /\ Len(m) >= 1
             /\ m[Len(m)].content = Val(lastWebhook.event.text)
             /\ m[Len(m)].isFromAgent]_vars

(***************************************************************************)
(* Properties of the widget (Spec)                                         *)
(***************************************************************************)
HandedOff == session.exists /\ session.mode = "human" /\ Truthy(session.slackThreadId)
HumanWithoutThread ==
  session.exists /\ session.mode = "human" /\ ~Truthy(session.slackThreadId)
CreateThreadCalls == { c \in slackCalls : c.action = "createThread" }

\* C1: session.messages is append-only: the list of a state is a prefix of
\* the list of every later state.
MessagesAppendOnly ==
  [][session.exists => IsPrefix(session.messages, session'.messages)]_vars

\* C2: once the session is in human mode with slackThreadId set, no step
\* sets the mode back to AI.
NoReturnToAi ==
  [][HandedOff => session'.mode = "human"]_vars

\* C3: when every thread-creation call so far has failed and no sendMessage
\* or switchToHuman is still running, the session is in AI mode and has no
\* slackThreadId.
FailedHandoffLeavesAi ==
  (/\ handoffCount >= 1
   /\ \A k \in 1..Len(handoffs) : handoffs[k].pc = "failed"
   /\ send.pc = "idle")
  => (session.mode = "ai" /\ ~Truthy(session.slackThreadId))

\* C4: while the session is in human mode no step starts a hand-off: no
\* switchToHuman is invoked, no thread creation is requested and no
\* transition message is appended, so mode and slackThreadId are not touched
\* by one.
NoHandoffInHumanMode ==
  [][(session.exists /\ session.mode = "human") =>
       /\ handoffCount' = handoffCount
       /\ CreateThreadCalls' = CreateThreadCalls
       /\ \A i \in 1..Len(session'.messages) :
            session'.messages[i].content = "connecting" =>
              \E j \in 1..Len(session.messages) :
                session.messages[j] = session'.messages[i]]_vars

\* the window is open on a session in human mode, with a hand-off still
\* within the bound
HumanModeWindowOpen ==
  /\ isOpen
  /\ HandedOff
  /\ handoffCount < MaxHandoffs

\* C5: a sendMessage that starts in human mode with no slackThreadId
\* appends nothing to session.messages, issues no request to the session
\* endpoint and posts nothing to the agent channel.
SendWithoutThreadRejected ==
  [][(HumanWithoutThread /\ send'.n # send.n) =>
       /\ session'.messages = session.messages
       /\ sessionCalls' = sessionCalls
       /\ slackCalls' = slackCalls]_vars

\* the lines of the session's transcript in the store
TranscriptLines == SeqToSet(record.Transcript)

\* a message the customer sent or the AI responder answered
IsCustomerOrAiMessage(m) ==
  m.sender = "user" \/ m.id[1] = "bot"

\* a message made from a relay entry
IsRelayed(m) == m.id[1] = "msg"

\* C14: every customer message and every AI reply in session.messages has
\* its line in the stored transcript: it was written before it was shown.
WrittenBeforeShown ==
  \A i \in 1..Len(session.messages) :
    IsCustomerOrAiMessage(session.messages[i]) =>
      formatTranscriptEntry(session.messages[i]) \in TranscriptLines

\* C15: every agent reply taken from a poll is in session.messages with
\* sender "human", and an addMessage request that persists its transcript
\* line has been issued to the session endpoint.
AgentReplyPersisted ==
  \A i \in 1..Len(session.messages) :
    IsRelayed(session.messages[i]) =>
      /\ session.messages[i].sender = "human"
      /\ \E c \in sessionCalls :
           c.action = "addMessage" /\ c.message = session.messages[i].id

\* the sendMessage posts asked of /api/chat-slack
SendMessageCalls == { c \in slackCalls : c.action = "sendMessage" }

\* C16: a customer message is routed by the mode the session had when the
\* message was submitted (send.session): submitted in AI mode it goes to the
\* AI responder and is never posted to the agent channel; submitted in human
\* mode it is never given to the AI responder, and its post to the agent
\* channel is a reply in the thread slackThreadId of that session.
RoutedByMode ==
  /\ [](\A c \in SendMessageCalls : c.message \notin aiCalls)
  /\ [][/\ aiCalls' # aiCalls =>
             /\ send.session.mode = "ai"
             /\ aiCalls' = aiCalls \cup {send.userMessage.id}
             /\ SendMessageCalls' = SendMessageCalls
        /\ SendMessageCalls' # SendMessageCalls =>
             /\ send.session.mode = "human"
             /\ aiCalls' = aiCalls
             /\ \E c \in SendMessageCalls' :
                  /\ SendMessageCalls' = SendMessageCalls \cup {c}
                  /\ c.message = send.userMessage.id
                  /\ Truthy(send.session.slackThreadId)
                  /\ sendMessageToSlack(c.message, c.threadId, TRUE).thread_ts
                       = send.session.slackThreadId]_vars

\* a message submitted in human mode was posted to the session's thread and
\* not given to the AI responder
PostedToThread ==
  /\ send.pc = "slack"
  /\ send.session.mode = "human"
  /\ aiCalls = {}
  /\ \E c \in SendMessageCalls :
       c.message = send.userMessage.id /\ c.threadId = session.slackThreadId

\* C17: without a restart of the relay buffer, no relay entry is appended to
\* session.messages more than once.
RepliesAppendedOnce ==
  \A i, j \in 1..Len(session.messages) :
    (i < j /\ IsRelayed(session.messages[i])) =>
      session.messages[i].id # session.messages[j].id

\* a step in which an interval callback sends its request
PollIssued == Len(polls') = Len(polls) + 1

\* a step in which a poll response is appended to session.messages
PollApplied == Len(polls') < Len(polls) /\ session'.messages # session.messages

\* C18: while the widget is closed or the session is not in human mode with
\* a slackThreadId, no poll request is issued and no poll result is applied
\* to the session.
PollsOnlyWhileActive ==
  [][(~isOpen \/ ~PollingActive(session)) => (~PollIssued /\ ~PollApplied)]_vars

\* C19: slackThreadId is assigned only by a hand-off whose thread creation
\* succeeded, and once it is set no step changes or clears it.
ThreadIdAssignedOnce ==
  /\ [][Truthy(session.slackThreadId) =>
          session'.slackThreadId = session.slackThreadId]_vars
  /\ [][(~Truthy(session.slackThreadId) /\ Truthy(session'.slackThreadId)) =>
          threadsCreated' = threadsCreated + 1]_vars

\* a PUT of sendMessage settles and leaves the stored transcript as it was:
\* the call was rejected, answered 500, or found no record
TranscriptAppendFailed ==
  send.pc \in {"put1", "put2"} /\ send'.pc # send.pc /\ record' = record

\* the apology of sendMessage's catch is not among the messages before the step
ApologyShown ==
  \E i \in 1..Len(session'.messages) :
    /\ session'.messages[i].content = "sorry"
    /\ \A j \in 1..Len(session.messages) : session.messages[j] # session'.messages[i]

\* C20: when a transcript append of sendMessage fails, no failure message is
\* shown because of it, and a message whose first append failed is still
\* sent to the AI responder or, in human mode with a thread, to the agent
\* channel.
TranscriptFailureSwallowed ==
  [][TranscriptAppendFailed =>
       /\ ~ApologyShown
       /\ (send.pc = "put1" /\ (send.session.mode = "ai"
                                 \/ Truthy(send.session.slackThreadId)))
            => send'.pc \in {"ai", "slack"}]_vars

\* C21: a failed provider call in sendMessage or switchToHuman leaves the
\* session in place with status "active"; what is shown for it is one of the
\* fixed apology texts, never the provider's error; and once the sendMessage
\* has ended, isLoading is FALSE again, so that further messages are taken.
SessionSurvivesFailure ==
  /\ [](session.exists => session.status = "active")
  /\ [](\A i \in 1..Len(session.messages) :
          session.messages[i].content # ProviderError)
  /\ [](send.pc = "idle" => ~isLoading)
  /\ [][session.exists => session'.exists]_vars

\* a sendMessage has failed and shown its apology; the session is active and
\* takes messages
ApologyAfterFailure ==
  /\ session.exists /\ session.status = "active"
  /\ send.pc = "idle" /\ send.n >= 1 /\ ~isLoading
  /\ \E i \in 1..Len(session.messages) : session.messages[i].content = "sorry"

\* the lines the record holds when the requests in `order` were appended to
\* the welcome line one after the other
RECURSIVE AppendedLines(_)
AppendedLines(order) ==
  IF order = <<>>
  THEN <<formatTranscriptEntry(Message(Uuid("welcome", 0), "welcome", "bot"))>>
  ELSE Append(AppendedLines(SubSeq(order, 1, Len(order) - 1)),
              formatTranscriptEntry(AppendMessage(order[Len(order)])))

\* C22: the stored transcript holds one line for every addMessage request
\* answered with success, in the order the requests were applied, whether or
\* not the requests overlapped.
TranscriptHoldsEveryAppend ==
  record.exists => record.Transcript = AppendedLines(applied)

\* C23: a hand-off that has put the session in HUMAN mode without a thread
\* id resolves: the session does not stay in that state for ever, even when
\* the agent channel never answers createThread.
HandoffAttemptResolves == HumanWithoutThread ~> ~HumanWithoutThread

IsWelcome(m) == m.id[1] = "welcome" /\ m.content = "welcome" /\ m.sender = "bot"

\* C24: initializeSession yields a session in mode AI with status active and
\* the welcome message as its only message; a session holds the welcome
\* message exactly once; and when the create call settles, with success or
\* not, the session is left as it was.
SessionInitialised ==
  /\ [][~session.exists /\ session'.exists =>
          /\ session'.mode = "ai" /\ session'.status = "active"
          /\ Len(session'.messages) = 1 /\ IsWelcome(session'.messages[1])
          /\ ~Truthy(session'.slackThreadId)]_vars
  /\ [](session.exists =>
          Cardinality({i \in 1..Len(session.messages) : IsWelcome(session.messages[i])}) = 1)
  /\ [][creating = "sent" /\ creating' = "done" =>
          session'.exists /\ session' = session /\ isLoading' = isLoading]_vars

\* the create call failed, and the session has since taken a message
UsableWithoutRecord ==
  /\ creating = "done" /\ ~record.exists
  /\ session.exists /\ session.status = "active"
  /\ send.n >= 1 /\ send.pc = "idle" /\ ~isLoading
  /\ \E i \in 1..Len(session.messages) : session.messages[i].sender = "user"

\* the entries created since the process started, as <<thread, position>>
Created == { <<t, i>> \in (DOMAIN arrivals) \X (1..MaxStore) : i <= Len(arrivals[t]) }

\* C25: the entries created by storeMessageForPolling since the process
\* started have pairwise distinct ids, across all threads, and an entry's
\* counter component is greater than that of every entry created before it.
RelayIdsUnique ==
  /\ [](\A p \in Created, q \in Created :
          p # q => arrivals[p[1]][p[2]].id # arrivals[q[1]][q[2]].id)
  /\ [](\A p \in Created, q \in Created :
          p[1] = q[1] /\ p[2] < q[2] =>
            arrivals[p[1]][p[2]].id[2] < arrivals[q[1]][q[2]].id[2])
  /\ [][\A t \in DOMAIN arrivals' :
          restarts' = restarts /\ Len(arrivals'[t]) > Len(Get(arrivals, t)) =>
            \A p \in Created :
              arrivals[p[1]][p[2]].id[2] < arrivals'[t][Len(arrivals'[t])].id[2]]_vars

\* two threads hold an entry each, created by the same process
EntriesInTwoThreads ==
  \E t \in DOMAIN arrivals, u \in DOMAIN arrivals :
    t # u /\ Len(arrivals[t]) >= 1 /\ Len(arrivals[u]) >= 1

WelcomeLine == formatTranscriptEntry(Message(Uuid("welcome", 0), "welcome", "bot"))
CustomerLine == formatTranscriptEntry(Message(Uuid("user", 1), "hello", "user"))
AssistantLine == formatTranscriptEntry(Message(Uuid("bot", 1), "response", "bot"))

\* one customer message was submitted in AI mode, answered by the responder,
\* and both appends were stored; no hand-off was asked for
FirstExchangeStored ==
  /\ record.exists /\ handoffCount = 0
  /\ send.n = 1 /\ send.pc = "idle"
  /\ CustomerLine \in TranscriptLines /\ AssistantLine \in TranscriptLines

\* C26 (as stated): after the first exchange the transcript consists of
\* exactly two lines, the Customer line then the AI Assistant line.
TranscriptIsTwoLines ==
  FirstExchangeStored => record.Transcript = <<CustomerLine, AssistantLine>>

\* C26: after the first exchange the transcript consists of exactly three
\* lines: the welcome line written by the create call, then the Customer
\* line, then the AI Assistant line.
TranscriptIsWelcomeThenExchange ==
  FirstExchangeStored => record.Transcript = <<WelcomeLine, CustomerLine, AssistantLine>>

\* the first exchange is stored and shown
FirstExchangeDone ==
  /\ FirstExchangeStored
  /\ ~isLoading
  /\ \E i \in 1..Len(session.messages) : session.messages[i].content = "response"

UserMessages == { i \in 1..Len(session.messages) : session.messages[i].sender = "user" }
IssuedCalls == <<sessionCalls, aiCalls, slackCalls>>

\* C27: a run of handleSend on a text that is empty after trimming changes
\* neither session.messages nor the calls issued nor the transcript, and no
\* message that is empty after trimming is ever in session.messages,
\* whichever way sendMessage was entered.
EmptyMessageRejected ==
  /\ [][input'.presses # input.presses /\ TrimEnd(TrimStart(input.message)) = <<>> =>
          UNCHANGED <<session, IssuedCalls, record, send, isLoading>>]_vars
  /\ [](session.exists =>
          \A i \in UserMessages :
            TrimEnd(TrimStart(session.messages[i].content)) # <<>>)

\* handleSend has run on a field holding white space only
BlankMessagePressed ==
  /\ input.presses >= 1
  /\ input.message # <<>> /\ TrimEnd(TrimStart(input.message)) = <<>>
  /\ UserMessages = {} /\ IssuedCalls = <<{[action |-> "create", message |-> Uuid("welcome", 0), slackThreadId |-> Absent]}, {}, {}>>

\* C28: a message of exactly MaxLength characters is accepted, and a text
\* one character longer is rejected: a run of handleSend after the customer
\* has put more than MaxLength characters into the field sends nothing.
OverlongMessageRejected ==
  [][input'.presses # input.presses /\ Length(input.typed) > MaxLength =>
       UNCHANGED <<session, IssuedCalls>>]_vars

HandoffInFlight == \E k \in 1..Len(handoffs) : handoffs[k].pc \in {"create", "put"}

\* C29: whenever no switchToHuman call is in flight, the session is in mode
\* human exactly if it has a slackThreadId.
ModeMatchesThread ==
  session.exists /\ ~HandoffInFlight =>
    (session.mode = "human" <=> Truthy(session.slackThreadId))

\* C30: every sendMessage that has set isLoading resets it: while each call
\* it awaits returns or throws, isLoading becomes FALSE again, and the step
\* that ends a sendMessage, on the success path or on a failure path, leaves
\* isLoading FALSE.
LoadingIsReset ==
  /\ isLoading ~> ~isLoading
  /\ [][send.pc # "idle" /\ send'.pc = "idle" => ~isLoading']_vars

\* a sendMessage has run to its end on the success path
SendCompleted ==
  /\ send.n >= 1 /\ send.pc = "idle" /\ ~isLoading
  /\ \E i \in 1..Len(session.messages) : session.messages[i].id = Uuid("bot", send.n)
  /\ \A i \in 1..Len(session.messages) : session.messages[i].id[1] # "sorry"

====
